---- MODULE Spec2Model ----
(***************************************************************************)
(* node-gps-recorder, src/index.js: the polling loop `run`, the            *)
(* significance predicate `pointNeedsUpdate`, the odometer accumulator     *)
(* `updateOdoMeters` and the module-level Recording State                  *)
(* (recordingTripA, lastRecordedDataA).                                    *)
(*                                                                         *)
(* JavaScript runs the handlers one at a time; what is concurrent is the   *)
(* set of callbacks that are still owed: replies of the two redis          *)
(* connections (each connection answers in the order the commands were     *)
(* sent), the promises of the Trip / TripPoint repositories, and timers.   *)
(* The state below is exactly that set, plus the module-level variables    *)
(* and the three persistent counters.  Every pending item carries the id   *)
(* c of the cycle (the invocation of run) that issued it.                  *)
(*                                                                         *)
(* Values read from the store are strings or null.  They are encoded as    *)
(* integers: a number n for the numeric string "n", Null for null and      *)
(* NaNStr for the string 'nan'.  An optional object is a sequence of       *)
(* length 0 (null) or 1.                                                   *)
(***************************************************************************)
EXTENDS Integers, Sequences, FiniteSets

\* ---------------------------------------------------------------- bounds
MaxCycles == 3
MaxConnects == 2
\* Commands the persistent store may be behind by; the handlers never wait
\* for it, so this only keeps the queue finite.
MaxStoreLag == 4

\* ---------------------------------------------------------------- values
Null == -1
NaNStr == -2
NaN == -3

None == <<>>
Some(x) == <<x>>
Get(s) == s[1]

minTravelDistanceM == 10

TripIds == {1, 2}
AliveVals == {Null, 1}
\* The zero/zero fix, a place, and the places 5 m and 10 m from it.
Positions == {<<0, 0>>, <<1, 1>>, <<2, 1>>, <<3, 1>>}
SpeedVals == {10, 20, NaNStr}

\* The fields of the snapshot o that run and its helpers read; the other
\* keys of REDIS_KEYS are copied into the point and never looked at.
Snapshots ==
  {o \in [gpsAlive : AliveVals, recordTripIDA : TripIds \cup {Null},
          latitude : 0..3, longitude : 0..1, obdSpeedKMH : SpeedVals] :
     <<o.latitude, o.longitude>> \in Positions}

Cycles == 1..MaxCycles

\* JavaScript truthiness of a store reply (null is falsy, a non-empty
\* string truthy).
Truthy(v) == v # Null

Abs(n) == IF n < 0 THEN -n ELSE n

parseFloat(v) == IF v \in {Null, NaNStr, NaN} THEN NaN ELSE v

\* gps-distance times 1000: meters between two positions.  Positions are
\* grid steps of 5 m and the distance is taken along the grid, so that a
\* pair of positions can be closer than, exactly at and beyond
\* minTravelDistanceM.  NaN when a coordinate does not parse.
gpsDistanceM(lat1, lon1, lat2, lon2) ==
  IF NaN \in {lat1, lon1, lat2, lon2} THEN NaN
  ELSE 5 * (Abs(lat1 - lat2) + Abs(lon1 - lon2))

\* a < b on JavaScript numbers: false when a is NaN.
LessThan(a, b) == a # NaN /\ a < b

replaceNaN(o) == [k \in DOMAIN o |-> IF o[k] = NaNStr THEN Null ELSE o[k]]

transformIntoTripPoint(tripID, o) ==
  replaceNaN([tripID |-> tripID,
              latitude |-> o.latitude,
              longitude |-> o.longitude,
              vehicleSpeed |-> o.obdSpeedKMH])

\* A pointNeedsUpdate that lost the vehicle-speed rule.
pointNeedsUpdateNoSpeedRule(prev, current) ==
  IF prev = None /\ current = None THEN "false"
  ELSE IF prev = None /\ Get(current).latitude # 0 /\ Get(current).longitude # 0
    THEN "true"
  ELSE IF current = None THEN "TypeError"
  ELSE IF Get(current).latitude = 0 /\ Get(current).longitude = 0 THEN "false"
  ELSE IF prev = None THEN "TypeError"
  ELSE IF Get(prev).latitude = Get(current).latitude
          /\ Get(prev).longitude = Get(current).longitude THEN "false"
  ELSE IF LessThan(gpsDistanceM(parseFloat(Get(prev).latitude),
                                parseFloat(Get(prev).longitude),
                                parseFloat(Get(current).latitude),
                                parseFloat(Get(current).longitude)),
                   minTravelDistanceM) THEN "false"
  ELSE "true"

\* A pointNeedsUpdate that looks at the vehicle speed before the zero/zero
\* fix.
pointNeedsUpdateSpeedFirst(prev, current) ==
  IF prev = None /\ current = None THEN "false"
  ELSE IF prev = None /\ current # None
          /\ Get(current).latitude # 0 /\ Get(current).longitude # 0
    THEN "true"
  ELSE IF current = None THEN "TypeError"
  ELSE IF prev = None
    THEN IF Get(current).latitude = 0 /\ Get(current).longitude = 0
           THEN "false" ELSE "TypeError"
  ELSE IF Get(prev).vehicleSpeed # Get(current).vehicleSpeed THEN "true"
  ELSE IF Get(current).latitude = 0 /\ Get(current).longitude = 0 THEN "false"
  ELSE IF Get(prev).latitude = Get(current).latitude
          /\ Get(prev).longitude = Get(current).longitude THEN "false"
  ELSE IF LessThan(gpsDistanceM(parseFloat(Get(prev).latitude),
                                parseFloat(Get(prev).longitude),
                                parseFloat(Get(current).latitude),
                                parseFloat(Get(current).longitude)),
                   minTravelDistanceM) THEN "false"
  ELSE "true"

\* A pointNeedsUpdate that also suppresses a distance equal to the minimum.
pointNeedsUpdateInclusive(prev, current) ==
  IF prev = None /\ current = None THEN "false"
  ELSE IF prev = None /\ current # None
          /\ Get(current).latitude # 0 /\ Get(current).longitude # 0
    THEN "true"
  ELSE IF current = None THEN "TypeError"
  ELSE IF Get(current).latitude = 0 /\ Get(current).longitude = 0 THEN "false"
  ELSE IF prev = None THEN "TypeError"
  ELSE IF Get(prev).vehicleSpeed # Get(current).vehicleSpeed THEN "true"
  ELSE IF Get(prev).latitude = Get(current).latitude
          /\ Get(prev).longitude = Get(current).longitude THEN "false"
  ELSE IF LessThan(gpsDistanceM(parseFloat(Get(prev).latitude),
                                parseFloat(Get(prev).longitude),
                                parseFloat(Get(current).latitude),
                                parseFloat(Get(current).longitude)),
                   minTravelDistanceM + 1) THEN "false"
  ELSE "true"

\* "true" / "false", or "TypeError" where the code reads a field of null.
pointNeedsUpdate(prev, current) ==
  IF prev = None /\ current = None THEN "false"
  ELSE IF prev = None /\ current # None
          /\ Get(current).latitude # 0 /\ Get(current).longitude # 0
    THEN "true"
  ELSE IF current = None THEN "TypeError"
  ELSE IF Get(current).latitude = 0 /\ Get(current).longitude = 0 THEN "false"
  ELSE IF prev = None THEN "TypeError"
  ELSE IF Get(prev).vehicleSpeed # Get(current).vehicleSpeed THEN "true"
  ELSE IF Get(prev).latitude = Get(current).latitude
          /\ Get(prev).longitude = Get(current).longitude THEN "false"
  ELSE IF LessThan(gpsDistanceM(parseFloat(Get(prev).latitude),
                                parseFloat(Get(prev).longitude),
                                parseFloat(Get(current).latitude),
                                parseFloat(Get(current).longitude)),
                   minTravelDistanceM) THEN "false"
  ELSE "true"

\* A command sent on a redis connection.
Cmd(cmd, key, val) == [cmd |-> cmd, key |-> key, val |-> val]

\* An updateOdoMeters that skips distances below the travel threshold.
updateOdoMetersThreshold(prev, current) ==
  IF prev = None THEN <<>>
  ELSE LET mDistance == gpsDistanceM(parseFloat(Get(prev).latitude),
                                     parseFloat(Get(prev).longitude),
                                     parseFloat(current.latitude),
                                     parseFloat(current.longitude))
       IN IF LessThan(mDistance, minTravelDistanceM) THEN <<>>
          ELSE << Cmd("incrbyfloat", "odo", mDistance),
                  Cmd("incrbyfloat", "tripA", mDistance),
                  Cmd("incrbyfloat", "tripB", mDistance) >>

\* The commands updateOdoMeters sends on the persistent connection.
updateOdoMeters(prev, current) ==
  IF prev = None THEN <<>>
  ELSE LET mDistance == gpsDistanceM(parseFloat(Get(prev).latitude),
                                     parseFloat(Get(prev).longitude),
                                     parseFloat(current.latitude),
                                     parseFloat(current.longitude))
       IN << Cmd("incrbyfloat", "odo", mDistance),
             Cmd("incrbyfloat", "tripA", mDistance),
             Cmd("incrbyfloat", "tripB", mDistance) >>

\* What Trip.findOrCreate resolves to for the identifier id: a Trip whose
\* tripID is that identifier.
TripOf(id) == [tripID |-> id]

\* A guard that forgot the liveness flag.
ShouldRecordIgnoreAlive(o) == Truthy(o.recordTripIDA)

\* else-if (o.gpsAlive) / if (o.recordTripIDA)
ShouldRecord(o) == Truthy(o.gpsAlive) /\ Truthy(o.recordTripIDA)

\* The synchronous part of run's callback for a snapshot o, given the
\* Recording State (trip, last): the trip after the identifier check, the
\* point, and the branch taken.
Decide(o, trip, last) ==
  IF ~ShouldRecord(o) THEN [branch |-> "idle", trip |-> trip, point |-> None]
  ELSE
    LET changed == trip # None /\ o.recordTripIDA # Get(trip).tripID
        trip1 == IF changed THEN None ELSE trip
        point == transformIntoTripPoint(
                   IF trip1 # None THEN Get(trip1).tripID ELSE Null, o)
        need == IF last = None THEN "true"
                ELSE pointNeedsUpdate(last, Some(point))
    IN IF need = "true"
         THEN [branch |-> IF trip1 = None THEN "findOrCreate" ELSE "create",
               trip |-> trip1, point |-> Some(point)]
       ELSE IF need = "false"
         THEN [branch |-> "skip", trip |-> trip1, point |-> None]
       ELSE [branch |-> "throw", trip |-> trip1, point |-> None]

\* A callback that calls setTimeout on every branch.
SchedulesNowAlways(branch) == TRUE

\* The branches of the callback that call setTimeout themselves; the other
\* two leave it to the promise handlers.
SchedulesNow(branch) == branch \in {"idle", "skip"}

VARIABLES
  connects,           \* 'connect' events of the live connection so far
  cycles,             \* invocations of run so far; the newest cycle's id
  rQueue,             \* commands of rClient not yet answered, oldest first
  prQueue,            \* commands of prClient not yet answered, oldest first
  dbPending,          \* promises of Trip.findOrCreate / TripPoint.create
  timers,             \* cycles whose setTimeout(run) has not fired yet
  recordingTripA,
  lastRecordedDataA,
  trips,              \* identifiers of the Trip rows
  odo, tripA, tripB,  \* the three persistent counters
  nPoints,            \* Trip Points persisted so far
  uni,                \* history: the run so far as a uniform sequence
  ev,                 \* history: the handler that ran last
  odoHist,            \* history: the last persisted point, meters between
                      \* consecutive persisted points summed
  call                \* a call of pointNeedsUpdate on its own: arguments, result

vars == <<connects, cycles, rQueue, prQueue, dbPending, timers,
          recordingTripA, lastRecordedDataA, trips, odo, tripA, tripB,
          nPoints, uni, ev, odoHist, call>>

\* The commands cmds as queue entries of cycle c.
Tagged(c, cmds) ==
  [i \in 1..Len(cmds) |->
     [c |-> c, cmd |-> cmds[i].cmd, key |-> cmds[i].key, val |-> cmds[i].val]]

GetsOf(c) == {i \in 1..Len(rQueue) : rQueue[i].c = c /\ rQueue[i].cmd = "get"}
WritesOf(c) ==
  {i \in 1..Len(rQueue) : rQueue[i].c = c /\ rQueue[i].cmd # "get"}
    \cup {-i : i \in {j \in 1..Len(prQueue) : prQueue[j].c = c}}
DbOf(c) == {x \in dbPending : x.c = c}

\* A cycle is in flight while its snapshot or one of its promises is owed.
InFlight(c) == GetsOf(c) # {} \/ DbOf(c) # {}
Quiet == \A c \in Cycles : ~InFlight(c)

\* ---------------------------------------------------------------- history
\* ev: which handler ran last and for which cycle; for run's callback also
\* what it was given (GPS alive, a trip requested, the requested id differs
\* from the active trip's, the trip id alone changed since the cycle
\* before) and the branch it took.
Event(kind, c, alive, wanted, changed, tripChange, branch) ==
  [kind |-> kind, c |-> c, alive |-> alive, wanted |-> wanted,
   changed |-> changed, tripChange |-> tripChange, branch |-> branch]
Plain(kind, c) == Event(kind, c, FALSE, FALSE, FALSE, FALSE, "")

Fresh == [st |-> "fresh", id |-> Null, lat |-> 0, lon |-> 0, speeds |-> <<>>]
Broken == [st |-> "broken", id |-> Null, lat |-> 0, lon |-> 0, speeds |-> <<>>]

\* A snapshot of the kind the end-to-end scenarios are about: GPS alive, a
\* trip requested, not the zero/zero fix, and no reconnect so far.
Clean(o) ==
  /\ Truthy(o.gpsAlive) /\ Truthy(o.recordTripIDA)
  /\ ~(o.latitude = 0 /\ o.longitude = 0)
  /\ connects = 1

SamePlace(o) == o.latitude = uni.lat /\ o.longitude = uni.lon

UniAfter(o) ==
  IF uni.st = "broken" \/ ~Clean(o) THEN Broken
  ELSE IF uni.st = "fresh"
    THEN [st |-> "run", id |-> o.recordTripIDA, lat |-> o.latitude,
          lon |-> o.longitude, speeds |-> <<o.obdSpeedKMH>>]
  ELSE IF o.recordTripIDA = uni.id /\ SamePlace(o)
    THEN [uni EXCEPT !.speeds = Append(@, o.obdSpeedKMH)]
  ELSE Broken

\* The requested id differs from the one of all cycles before, position
\* and vehicle speed are those of the cycle before.
TripChangeOnly(o) ==
  /\ uni.st = "run" /\ Clean(o)
  /\ o.recordTripIDA # uni.id /\ SamePlace(o)
  /\ o.obdSpeedKMH = uni.speeds[Len(uni.speeds)]

\* ---------------------------------------------------------------- actions
\* No call of pointNeedsUpdate on its own.
NoCall == [prev |-> None, current |-> None, result |-> "none"]

\* The module after it is loaded: nothing recorded, nothing owed.
InitState ==
  /\ connects = 0 /\ cycles = 0
  /\ rQueue = <<>> /\ prQueue = <<>>
  /\ dbPending = {} /\ timers = {}
  /\ recordingTripA = None /\ lastRecordedDataA = None
  /\ trips = {}
  /\ odo = 0 /\ tripA = 0 /\ tripB = 0
  /\ nPoints = 0
  /\ uni = Fresh
  /\ ev = Plain("init", 0)
  /\ odoHist = [last |-> None, travelled |-> 0]

Init == InitState /\ call = NoCall

\* run(): getCurrentData sends the gets of all keys at once.
Run ==
  /\ cycles < MaxCycles
  /\ cycles' = cycles + 1
  /\ rQueue' = Append(rQueue, [c |-> cycles + 1, cmd |-> "get", key |-> "*",
                               val |-> Null])

\* rClient.on('connect'), the first time: the live store is connected.
Connect ==
  /\ connects = 0
  /\ connects' = 1
  /\ Run
  /\ ev' = Plain("connect", cycles + 1)
  /\ UNCHANGED <<odoHist, call, prQueue, dbPending, timers, recordingTripA,
                 lastRecordedDataA, trips, odo, tripA, tripB, nPoints, uni>>

\* rClient.on('connect'), again: the client lost the live store and found
\* it again; it emits 'connect' at every connection it establishes.
Reconnect ==
  /\ connects >= 1 /\ connects < MaxConnects
  /\ connects' = connects + 1
  /\ Run
  /\ uni' = Broken
  /\ ev' = Plain("connect", cycles + 1)
  /\ UNCHANGED <<odoHist, call, prQueue, dbPending, timers, recordingTripA,
                 lastRecordedDataA, trips, odo, tripA, tripB, nPoints>>

\* The timer of cycle c fires: run.
TimerFire(c) ==
  /\ c \in timers
  /\ timers' = timers \ {c}
  /\ Run
  /\ ev' = Event("timer", cycles + 1, FALSE, FALSE, FALSE, FALSE,
                 IF ev.c = c THEN ev.kind ELSE "")
  /\ UNCHANGED <<odoHist, call, connects, prQueue, dbPending, recordingTripA,
                 lastRecordedDataA, trips, odo, tripA, tripB, nPoints, uni>>

\* An error branch that also forgets the active trip.
GetErrorDropsTrip(c) ==
  /\ rQueue # <<>> /\ Head(rQueue).cmd = "get" /\ Head(rQueue).c = c
  /\ rQueue' = Tail(rQueue)
  /\ recordingTripA' = None
  /\ uni' = Broken
  /\ ev' = Plain("fetchErr", c)
  /\ UNCHANGED <<odoHist, call, connects, cycles, prQueue, dbPending, timers,
                 lastRecordedDataA, trips, odo, tripA, tripB, nPoints>>

\* getCurrentData calls back with an error: run logs it and returns.
GetError(c) ==
  /\ rQueue # <<>> /\ Head(rQueue).cmd = "get" /\ Head(rQueue).c = c
  /\ rQueue' = Tail(rQueue)
  /\ uni' = Broken
  /\ ev' = Plain("fetchErr", c)
  /\ UNCHANGED <<odoHist, call, connects, cycles, prQueue, dbPending, timers,
                 recordingTripA, lastRecordedDataA, trips, odo, tripA, tripB,
                 nPoints>>

\* getCurrentData calls back with the snapshot o.
GetReply(c, o) ==
  /\ rQueue # <<>> /\ Head(rQueue).cmd = "get" /\ Head(rQueue).c = c
  /\ rQueue' = Tail(rQueue)
  /\ LET d == Decide(o, recordingTripA, lastRecordedDataA)
     IN /\ recordingTripA' = d.trip
        /\ dbPending' =
             IF d.branch = "findOrCreate"
               THEN dbPending \cup {[op |-> "findOrCreate", c |-> c,
                                     id |-> o.recordTripIDA,
                                     point |-> Get(d.point)]}
             ELSE IF d.branch = "create"
               THEN dbPending \cup {[op |-> "create", c |-> c,
                                     id |-> o.recordTripIDA,
                                     point |-> Get(d.point)]}
             ELSE dbPending
        /\ timers' = IF SchedulesNow(d.branch) THEN timers \cup {c} ELSE timers
        /\ ev' = Event("decide", c, o.gpsAlive # Null,
                       o.recordTripIDA # Null,
                       /\ o.gpsAlive # Null /\ o.recordTripIDA # Null
                       /\ recordingTripA # None
                       /\ o.recordTripIDA # Get(recordingTripA).tripID,
                       TripChangeOnly(o), d.branch)
  /\ uni' = UniAfter(o)
  /\ UNCHANGED <<odoHist, call, connects, cycles, prQueue, lastRecordedDataA, trips,
                 odo, tripA, tripB, nPoints>>

\* Trip.findOrCreate resolves: the trip becomes the active trip, its id is
\* published on both connections, and the point is handed to
\* TripPoint.create.
FindOrCreateResolve(c) ==
  \E x \in dbPending :
    /\ x.op = "findOrCreate" /\ x.c = c
    /\ LET trip == TripOf(x.id)
       IN /\ trips' = trips \cup {x.id}
          /\ recordingTripA' = Some(trip)
          /\ rQueue' = rQueue
               \o Tagged(c, <<Cmd("set", "recordTripIDA", trip.tripID)>>)
          /\ prQueue' = prQueue
               \o Tagged(c, <<Cmd("set", "recordTripIDA", trip.tripID)>>)
          /\ dbPending' = (dbPending \ {x})
               \cup {[op |-> "create", c |-> c, id |-> x.id,
                      point |-> [x.point EXCEPT !.tripID = trip.tripID]]}
          /\ Len(prQueue') <= MaxStoreLag
    /\ ev' = Plain("tripOk", c)
    /\ UNCHANGED <<odoHist, call, connects, cycles, timers, lastRecordedDataA,
                   odo, tripA, tripB, nPoints, uni>>

\* Trip.findOrCreate rejects.
FindOrCreateReject(c) ==
  \E x \in dbPending :
    /\ x.op = "findOrCreate" /\ x.c = c
    /\ dbPending' = dbPending \ {x}
    /\ timers' = timers \cup {c}
    /\ uni' = Broken
    /\ ev' = Plain("tripErr", c)
    /\ UNCHANGED <<odoHist, call, connects, cycles, rQueue, prQueue, recordingTripA,
                   lastRecordedDataA, trips, odo, tripA, tripB, nPoints>>

\* A then handler that replaces the last point before it accumulates.
CreateResolveLate(c) ==
  \E x \in dbPending :
    /\ x.op = "create" /\ x.c = c
    /\ LET p == x.point
       IN /\ prQueue' = prQueue \o Tagged(c, updateOdoMeters(Some(p), p))
          /\ lastRecordedDataA' = Some(p)
          /\ Len(prQueue') <= MaxStoreLag
          /\ ev' = Plain("pointOk", c)
    /\ dbPending' = dbPending \ {x}
    /\ timers' = timers \cup {c}
    /\ nPoints' = nPoints + 1
    /\ odoHist' =
         [last |-> Some(x.point),
          travelled |-> odoHist.travelled
            + (IF odoHist.last = None THEN 0
               ELSE gpsDistanceM(Get(odoHist.last).latitude,
                                 Get(odoHist.last).longitude,
                                 x.point.latitude, x.point.longitude))]
    /\ UNCHANGED <<call, connects, cycles, rQueue, recordingTripA, trips,
                   odo, tripA, tripB, uni>>

\* TripPoint.create resolves with the persisted point p.
CreateResolve(c) ==
  \E x \in dbPending :
    /\ x.op = "create" /\ x.c = c
    /\ LET p == x.point
       IN /\ prQueue' = prQueue \o Tagged(c, updateOdoMeters(lastRecordedDataA, p))
          /\ lastRecordedDataA' = Some(p)
          /\ Len(prQueue') <= MaxStoreLag
          /\ ev' = Plain("pointOk", c)
    /\ dbPending' = dbPending \ {x}
    /\ timers' = timers \cup {c}
    /\ nPoints' = nPoints + 1
    /\ odoHist' =
         [last |-> Some(x.point),
          travelled |-> odoHist.travelled
            + (IF odoHist.last = None THEN 0
               ELSE gpsDistanceM(Get(odoHist.last).latitude,
                                 Get(odoHist.last).longitude,
                                 x.point.latitude, x.point.longitude))]
    /\ UNCHANGED <<call, connects, cycles, rQueue, recordingTripA, trips,
                   odo, tripA, tripB, uni>>

\* A catch handler that takes the point for recorded all the same.
CreateRejectRecords(c) ==
  \E x \in dbPending :
    /\ x.op = "create" /\ x.c = c
    /\ dbPending' = dbPending \ {x}
    /\ timers' = timers \cup {c}
    /\ lastRecordedDataA' = Some(x.point)
    /\ uni' = Broken
    /\ ev' = Plain("pointErr", c)
    /\ UNCHANGED <<odoHist, call, connects, cycles, rQueue, prQueue,
                   recordingTripA, trips, odo, tripA, tripB, nPoints>>

\* TripPoint.create rejects.
CreateReject(c) ==
  \E x \in dbPending :
    /\ x.op = "create" /\ x.c = c
    /\ dbPending' = dbPending \ {x}
    /\ timers' = timers \cup {c}
    /\ uni' = Broken
    /\ ev' = Plain("pointErr", c)
    /\ UNCHANGED <<odoHist, call, connects, cycles, rQueue, prQueue, recordingTripA,
                   lastRecordedDataA, trips, odo, tripA, tripB, nPoints>>

\* The live store answers the oldest write of rClient.
RAck ==
  /\ rQueue # <<>> /\ Head(rQueue).cmd = "set"
  /\ rQueue' = Tail(rQueue)
  /\ UNCHANGED <<odoHist, call, connects, cycles, prQueue, dbPending, timers,
                 recordingTripA, lastRecordedDataA, trips, odo, tripA, tripB,
                 nPoints, uni, ev>>

Incr(counter, key, h) ==
  IF h.cmd = "incrbyfloat" /\ h.key = key /\ h.val # NaN
    THEN counter + h.val ELSE counter

\* The persistent store executes and answers the oldest command of
\* prClient.
PrAck ==
  /\ prQueue # <<>>
  /\ prQueue' = Tail(prQueue)
  /\ odo' = Incr(odo, "odo", Head(prQueue))
  /\ tripA' = Incr(tripA, "tripA", Head(prQueue))
  /\ tripB' = Incr(tripB, "tripB", Head(prQueue))
  /\ UNCHANGED <<odoHist, call, connects, cycles, rQueue, dbPending, timers,
                 recordingTripA, lastRecordedDataA, trips, nPoints, uni, ev>>

Next ==
  \/ Connect
  \/ \E c \in Cycles : TimerFire(c)
  \/ \E c \in Cycles : GetError(c)
  \/ \E c \in Cycles : \E o \in Snapshots : GetReply(c, o)
  \/ \E c \in Cycles : FindOrCreateResolve(c)
  \/ \E c \in Cycles : FindOrCreateReject(c)
  \/ \E c \in Cycles : CreateResolve(c)
  \/ \E c \in Cycles : CreateReject(c)
  \/ RAck
  \/ PrAck

\* The recorder while the live store stays connected.
Spec == Init /\ [][Next]_vars

\* The recorder when the live store connection may be lost and found again.
NextReconnect == Next \/ Reconnect
SpecReconnect == Init /\ [][NextReconnect]_vars

\* ------------------------------------------------- pointNeedsUpdate alone
\* Points as pointNeedsUpdate may be handed them: a coordinate is a number
\* or null (a 'nan' reading), so is the vehicle speed; either, both or
\* neither coordinate may be 0.
FnPoints ==
  [tripID : {1}, latitude : {Null} \cup 0..3, longitude : {Null} \cup 0..1,
   vehicleSpeed : {10, 20, Null}]
FnArgs == {None} \cup {Some(pt) : pt \in FnPoints}

InitFn ==
  /\ InitState
  /\ call \in [prev : FnArgs, current : FnArgs, result : {"pending"}]

\* pointNeedsUpdate(prev, current) returns or throws.
Apply ==
  /\ call.result = "pending"
  /\ call' = [call EXCEPT !.result = pointNeedsUpdate(call.prev, call.current)]
  /\ UNCHANGED <<connects, cycles, rQueue, prQueue, dbPending, timers,
                 recordingTripA, lastRecordedDataA, trips, odo, tripA, tripB,
                 nPoints, uni, ev, odoHist>>

NextFn == Apply
SpecFn == InitFn /\ [][NextFn]_vars

\* ----------------------------------------------------------------- claims
\* The handler that ran last ended its cycle.
CycleEnded ==
  \/ ev.kind \in {"fetchErr", "tripErr", "pointOk", "pointErr"}
  \/ ev.kind = "decide" /\ ev.branch \in {"idle", "skip", "throw"}

\* C1: every cycle, whatever its exit path, schedules the next cycle: when
\* the handler that ended a cycle has run, that cycle's timer is pending.
C1_EveryExitReschedules == CycleEnded => ev.c \in timers

\* C2: between cycles, when the active trip and the last persisted point
\* are both present, the point's trip id is the active trip's id.
C2_LastPointBelongsToActiveTrip ==
  (Quiet /\ recordingTripA # None /\ lastRecordedDataA # None)
    => Get(lastRecordedDataA).tripID = Get(recordingTripA).tripID

\* C3: a cycle that sees a requested trip id other than the active trip's
\* resets the active trip and the last persisted point, so that its
\* predicate is given prev = none.
C3_TripChangeResetsBoth ==
  (ev.kind = "decide" /\ ev.changed) => lastRecordedDataA = None

\* C4: when only the requested trip id changed since the cycle before
\* (same position, same vehicle speed, valid fix, GPS alive, no failure),
\* the cycle that sees the new id goes on to persist a point; it does not
\* skip.
C4_TripChangePersistsPoint ==
  (ev.kind = "decide" /\ ev.tripChange)
    => ev.branch \in {"findOrCreate", "create"}

\* C5: no Trip Point with latitude 0 and longitude 0 is persisted.
C5_ZeroZeroNeverRecorded ==
  ev.kind = "pointOk"
    => ~(Get(lastRecordedDataA).latitude = 0
         /\ Get(lastRecordedDataA).longitude = 0)

\* The cycle among the first k that persisted last, by the rule of C6.
RECURSIVE LastPersistedAt(_, _)
LastPersistedAt(speeds, k) ==
  IF k = 1 THEN 1
  ELSE IF speeds[k] # speeds[LastPersistedAt(speeds, k - 1)] THEN k
  ELSE LastPersistedAt(speeds, k - 1)

\* The number of points the rule of C6 persists over the first k cycles.
RECURSIVE Decimated(_, _)
Decimated(speeds, k) ==
  IF k = 0 THEN 0
  ELSE IF k = 1 THEN 1
  ELSE Decimated(speeds, k - 1)
         + (IF LastPersistedAt(speeds, k) = k THEN 1 ELSE 0)

\* C6: over cycles with one requested trip id, GPS alive, one valid
\* position and no failure, a point is persisted in the first cycle and
\* then exactly in the cycles whose vehicle speed differs from that of the
\* last persisted point.
C6_Decimation ==
  (uni.st = "run" /\ Quiet)
    => nPoints = Decimated(uni.speeds, Len(uni.speeds))

\* Speeds 10, 10, 20 gave 2 points.
C6_Witness ==
  uni.st = "run" /\ Quiet /\ uni.speeds = <<10, 10, 20>> /\ nPoints = 2

\* C7: at most one cycle is in flight or waiting on its timer.
C7_CyclesNeverOverlap ==
  Cardinality({c \in Cycles : InFlight(c) \/ c \in timers}) <= 1

OdoIncrements(prev, cur) ==
  IF prev = None THEN <<>>
  ELSE LET D == gpsDistanceM(Get(prev).latitude, Get(prev).longitude,
                             cur.latitude, cur.longitude)
       IN [i \in 1..3 |-> [cmd |-> "incrbyfloat",
                           key |-> <<"odo", "tripA", "tripB">>[i],
                           val |-> D]]

Untagged(q) ==
  [i \in 1..Len(q) |-> [cmd |-> q[i].cmd, key |-> q[i].key, val |-> q[i].val]]

\* C9: the step that persists a point sends no increment when there was no
\* last point, and otherwise one increment of the lifetime, the trip-A and
\* the trip-B counter each, all by the distance in meters between the last
\* point and the new one, however small; the store adds each amount to its
\* counter, and no counter ever decreases.
C9_OdometerAccumulation ==
  [][ /\ nPoints' = nPoints + 1 =>
           Untagged(SubSeq(prQueue', Len(prQueue) + 1, Len(prQueue')))
             = OdoIncrements(lastRecordedDataA, Get(lastRecordedDataA'))
      /\ (prQueue # <<>> /\ prQueue' = Tail(prQueue)
            /\ Head(prQueue).cmd = "incrbyfloat") =>
           LET by(key) == IF Head(prQueue).key = key
                            THEN Head(prQueue).val ELSE 0
           IN /\ odo' = odo + by("odo")
              /\ tripA' = tripA + by("tripA")
              /\ tripB' = tripB + by("tripB")
      /\ odo' >= odo /\ tripA' >= tripA /\ tripB' >= tripB
    ]_vars

\* A point was persisted at the place of the last one (distance 0): the
\* increments by 0 were sent, after earlier ones had been added.
C9_Witness ==
  /\ ev.kind = "pointOk"
  /\ \E i \in 1..Len(prQueue) :
       prQueue[i].cmd = "incrbyfloat" /\ prQueue[i].val = 0
  /\ odo > 0 /\ odo = tripA /\ odo = tripB

\* C10: the callback of a cycle whose snapshot has GPS not alive or no
\* requested trip id finds or creates no trip, persists no point, sends no
\* store write and leaves the Recording State as it was.
C10_IdleCycleIsNoOp ==
  [][ (rQueue # <<>> /\ Head(rQueue).cmd = "get" /\ rQueue # rQueue'
         /\ ev'.kind = "decide" /\ (~ev'.alive \/ ~ev'.wanted))
        => /\ rQueue' = Tail(rQueue)
           /\ UNCHANGED <<recordingTripA, lastRecordedDataA, trips,
                          dbPending, prQueue, odo, tripA, tripB, nPoints>>
    ]_vars

\* A trip was active and a point recorded when a cycle found the GPS not
\* alive; the cycle has ended.
C10_Witness ==
  /\ ev.kind = "decide" /\ ~ev.alive /\ ev.wanted
  /\ recordingTripA # None /\ lastRecordedDataA # None
  /\ ev.c \in timers

\* C11: the step in which TripPoint.create rejects leaves the last
\* persisted point as it was, sends no counter increment and changes no
\* counter.
C11_PointFailureKeepsLastPoint ==
  [][ (ev'.kind = "pointErr" /\ dbPending' # dbPending)
        => UNCHANGED <<lastRecordedDataA, prQueue, odo, tripA, tripB, nPoints>>
    ]_vars

\* A point had been recorded when a later TripPoint.create rejected; the
\* cycle has set its timer.
C11_Witness ==
  ev.kind = "pointErr" /\ lastRecordedDataA # None /\ ev.c \in timers

\* C12: the step in which Trip.findOrCreate rejects leaves no active trip,
\* persists no point, publishes no trip id and starts no second attempt,
\* only the timer; and the next cycle, given GPS alive and a requested id,
\* attempts find-or-create again.
C12_TripFailureRetriedNextCycle ==
  [][ /\ (ev'.kind = "tripErr" /\ dbPending' # dbPending)
           => /\ recordingTripA' = None
              /\ UNCHANGED <<lastRecordedDataA, rQueue, prQueue, nPoints>>
              /\ {x \in dbPending' : x.c = ev'.c} = {}
              /\ ev'.c \in timers'
      /\ (ev.kind = "timer" /\ ev.branch = "tripErr"
            /\ ev'.kind = "decide" /\ ev'.alive /\ ev'.wanted)
           => ev'.branch = "findOrCreate"
    ]_vars

\* C13: a cycle with GPS alive and a trip requested that has no active
\* trip (after the check of the requested id) attempts find-or-create, and
\* when that resolves the trip is the active one.
C13_IdleCycleFindsOrCreates ==
  /\ (ev.kind = "decide" /\ ev.alive /\ ev.wanted /\ recordingTripA = None)
       => ev.branch = "findOrCreate"
  /\ ev.kind = "tripOk" => recordingTripA # None

\* The call of pointNeedsUpdate has ended.
Called == call.result \notin {"none", "pending"}

ZeroZero(pt) == pt.latitude = 0 /\ pt.longitude = 0

\* C14: for a current point with latitude 0 and longitude 0,
\* pointNeedsUpdate returns false whatever prev is.
C14_ZeroZeroIsFalse ==
  (Called /\ call.current # None /\ ZeroZero(Get(call.current)))
    => call.result = "false"

\* Zero/zero current, a prev with another vehicle speed: false.
C14_Witness ==
  /\ Called /\ call.prev # None /\ call.current # None
  /\ ZeroZero(Get(call.current))
  /\ Get(call.prev).vehicleSpeed # Get(call.current).vehicleSpeed
  /\ call.result = "false"

\* The ordered rules of C15 for a prev and a current that is not zero/zero.
OrderedRules(prev, cur) ==
  IF prev.vehicleSpeed # cur.vehicleSpeed THEN "true"
  ELSE IF prev.latitude = cur.latitude /\ prev.longitude = cur.longitude
    THEN "false"
  ELSE IF LessThan(gpsDistanceM(parseFloat(prev.latitude),
                                parseFloat(prev.longitude),
                                parseFloat(cur.latitude),
                                parseFloat(cur.longitude)),
                   minTravelDistanceM)
    THEN "false"
  ELSE "true"

\* C15: for a prev that is not none and a current that is not zero/zero,
\* pointNeedsUpdate is: true if the vehicle speed differs; else false if
\* latitude and longitude are unchanged; else false if the distance is
\* strictly below the minimum travel distance; else true.
C15_OrderedRules ==
  (Called /\ call.prev # None /\ call.current # None
     /\ ~ZeroZero(Get(call.current)))
    => call.result = OrderedRules(Get(call.prev), Get(call.current))

\* Same vehicle speed, a distance of exactly the minimum: true.
C15_Witness ==
  /\ Called /\ call.prev # None /\ call.current # None
  /\ Get(call.prev).vehicleSpeed = Get(call.current).vehicleSpeed
  /\ Get(call.prev).latitude = 1 /\ Get(call.prev).longitude = 1
  /\ Get(call.current).latitude = 3 /\ Get(call.current).longitude = 1
  /\ gpsDistanceM(1, 1, 3, 1) = minTravelDistanceM
  /\ call.result = "true"

\* C19: for prev none and any current point, pointNeedsUpdate returns a
\* boolean.
C19_TotalOnNoPrev ==
  (Called /\ call.prev = None /\ call.current # None)
    => call.result \in {"true", "false"}

\* C16: the step in which the snapshot fetch fails finds or creates no
\* trip, persists no point, sends no store write, changes no counter and
\* leaves the Recording State as it was.
C16_FetchErrorDoesNothing ==
  [][ (ev'.kind = "fetchErr" /\ rQueue' # rQueue)
        => /\ rQueue' = Tail(rQueue)
           /\ ev'.branch = ""
           /\ \A x \in dbPending' : x.c # ev'.c
           /\ UNCHANGED <<recordingTripA, lastRecordedDataA, trips,
                          dbPending, prQueue, odo, tripA, tripB, nPoints>>
    ]_vars

\* A trip was active and a point recorded when a fetch failed.
C16_Witness ==
  ev.kind = "fetchErr" /\ recordingTripA # None /\ lastRecordedDataA # None

\* The increments of the counter key still in the persistent queue, summed.
RECURSIVE PendingSum(_, _)
PendingSum(q, key) ==
  IF q = <<>> THEN 0
  ELSE (IF Head(q).cmd = "incrbyfloat" /\ Head(q).key = key
          THEN Head(q).val ELSE 0) + PendingSum(Tail(q), key)

\* C17: increments are sent only by the step that persists a point, there
\* once for each counter and by the distance from the point persisted
\* before to the new one; so each counter, with what is still on its way to
\* the store, is the sum of the distances between consecutive persisted
\* points.
C17_OdometerFollowsPersistedPoints ==
  /\ [](/\ odo + PendingSum(prQueue, "odo") = odoHist.travelled
        /\ tripA + PendingSum(prQueue, "tripA") = odoHist.travelled
        /\ tripB + PendingSum(prQueue, "tripB") = odoHist.travelled)
  /\ [][ /\ (\E i \in (Len(prQueue) + 1)..Len(prQueue') :
               prQueue'[i].cmd = "incrbyfloat")
            => nPoints' = nPoints + 1
         /\ nPoints' = nPoints + 1 =>
              Untagged(SubSeq(prQueue', Len(prQueue) + 1, Len(prQueue')))
                = OdoIncrements(odoHist.last, Get(odoHist'.last))
       ]_vars

\* Three points persisted, the distances between them added to all three
\* counters.
C17_Witness ==
  /\ nPoints = 3 /\ prQueue = <<>>
  /\ odoHist.travelled > minTravelDistanceM
  /\ odo = odoHist.travelled /\ tripA = odo /\ tripB = odo

\* C18: the step that persists a point persists it with the trip id its
\* cycle's snapshot requested, which is not absent and is the id of the
\* active trip at that moment.
C18_PointCarriesRequestedTrip ==
  [][ nPoints' = nPoints + 1 =>
        \E x \in dbPending \ dbPending' :
          /\ x.id # Null
          /\ Get(lastRecordedDataA').tripID = x.id
          /\ recordingTripA # None
          /\ Get(recordingTripA).tripID = x.id
    ]_vars
====
